---------------------------- MODULE Spec2Model ----------------------------
(***************************************************************************)
(* Liquidation feature preparation of liqui-backtest.                      *)
(*                                                                         *)
(* Three variants of the same pipeline are modelled from their source:     *)
(*   prepare_strategy_data     src/src/strategies/counter-trade/           *)
(*                             data_preparation.py                         *)
(*   prepare_data              src/src/data_fetcher.py                     *)
(*   process_liquidation_data  src/freqtrade_app/ft_user_data/strategies/  *)
(*                             src/liquidation_processor.py                *)
(*                                                                         *)
(* Time is counted in minutes since midnight UTC of the first day of a     *)
(* month.  A float cell of a pandas table is a record [num, den]: den = 0  *)
(* is NaN, otherwise the cell holds the exact rational num/den.            *)
(* A timeframe string such as "5m" is the record [n |-> 5, u |-> "m"] of   *)
(* its leading integer and its last character.                             *)
(* A table's tz is "UTC" when its timestamps are timezone-aware and        *)
(* "naive" when they carry no timezone; a naive timestamp is the number of *)
(* its wall-clock minutes.  Spec calls the variants on timezone-aware      *)
(* tables, SpecTz on tables of which at least one is naive.  start_dt and  *)
(* end_dt are timezone-aware, and the candle index carries no freq         *)
(* attribute (it comes from set_index).                                    *)
(***************************************************************************)
EXTENDS Integers, Sequences, FiniteSets, TLC

\* ------------------------------------------------------------- bounds ---
\* Slots of the candle grid: a grid is any subset of the candles
\* 0, D, 2D, ... (MaxCandles - 1) * D of a timeframe of duration D.
MaxCandles == 3
\* Largest number of raw liquidation events of one request.
MaxEvents == 2

\* the active strategies and the symbols of a batch run
MaxStrategies == 2
MaxSymbols == 3

\* the largest cooldown_candles a strategy run is configured with
MaxCooldown == 2

\* the most rows of a dataframe handed to populate_entry_trend
MaxRows == 2

\* the largest start and end, and the largest step, of an optimization range
MaxRangeEnd == 6
MaxStep == 3

\* the last candle slot of a fetch request, and the candles per page (the
\* `limit` of a request, scaled down)
MaxFetchEnd == 4
PageLimit == 2

\* ---------------------------------------------------- program constants ---
MinutesPerHour == 60
HoursPerDay == 24
MinutesPerDay == HoursPerDay * MinutesPerHour
\* Length of the model's month (30 days), for pandas' month-end frequency.
MinutesPerMonth == 30 * MinutesPerDay

\* ----------------------------------------------------------- float cells ---
NaN == [num |-> 0, den |-> 0]
Num(n) == [num |-> n, den |-> 1]
IsNaN(x) == x.den = 0
\* a fill of missing cells with the sentinel -1
FillNaSentinel(x) == IF IsNaN(x) THEN Num(0 - 1) ELSE x
\* pandas fillna(0) on one cell
FillNa(x) == IF IsNaN(x) THEN Num(0) ELSE x
\* a replace(0, np.nan) that is left out: zeros stay in the series
ReplaceZeroKept(x) == x
\* pandas replace(0, np.nan) on one cell
ReplaceZeroByNaN(x) == IF ~IsNaN(x) /\ x.num = 0 THEN NaN ELSE x
\* numeric equality of two cells that are not NaN
SameNumber(x, y) == ~IsNaN(x) /\ ~IsNaN(y) /\ x.num * y.den = y.num * x.den
IsZero(x) == ~IsNaN(x) /\ x.num = 0

Max(a, b) == IF a >= b THEN a ELSE b

RECURSIVE SumOver(_, _)
\* sum of f[x] over the finite set S
SumOver(f, S) ==
  IF S = {} THEN 0
  ELSE LET x == CHOOSE y \in S : TRUE IN f[x] + SumOver(f, S \ {x})

Sides == {"BUY", "SELL"}

\* ------------------------------------------------------------ timeframes ---
\* "1m", "1h", "1d", "3d" and a string pandas cannot parse
TimeFrames ==
  { [n |-> 1, u |-> "m"], [n |-> 1, u |-> "h"], [n |-> 1, u |-> "d"],
    [n |-> 3, u |-> "d"], [n |-> 1, u |-> "x"] }

\* Minutes between two candle opens of the exchange's grid for a timeframe
\* (the unparseable one is given the grid of its number of minutes).
GridMinutes(tf) ==
  CASE tf.u = "m" -> tf.n
    [] tf.u = "h" -> tf.n * MinutesPerHour
    [] tf.u = "d" -> tf.n * MinutesPerDay
    [] OTHER -> tf.n

\* --------------------------------------------------------- pandas: resample ---
\* A liquidation event is [ts, side, size]; the size column is
\* cumulated_usd_size (backtest variants) or quantity (Freqtrade variant).
RECURSIVE SumSizes(_)
SumSizes(evs) ==
  IF evs = {} THEN 0
  ELSE LET e == CHOOSE x \in evs : TRUE IN e.size + SumSizes(evs \ {e})

MinTs(evs) == CHOOSE t \in {e.ts : e \in evs} : \A e \in evs : t <= e.ts
MaxTs(evs) == CHOOSE t \in {e.ts : e \in evs} : \A e \in evs : t >= e.ts

\* Timestamp.normalize(): midnight of the instant's day
DayStart(t) == (t \div MinutesPerDay) * MinutesPerDay

\* pandas' reading of a frequency string "<n><alias>" (to_offset): a fixed
\* duration (Tick), a month-end offset, or ValueError for an unknown alias.
PandasOffset(n, alias) ==
  CASE alias = "min" -> [kind |-> "tick", minutes |-> n]
    [] alias \in {"H", "h"} -> [kind |-> "tick", minutes |-> n * MinutesPerHour]
    [] alias \in {"D", "d"} -> [kind |-> "tick", minutes |-> n * MinutesPerDay]
    [] alias = "m" -> [kind |-> "month", months |-> n]
    [] OTHER -> [kind |-> "invalid"]

\* Series.resample(<fixed duration d>, label="left", closed="left").sum():
\* the bins are anchored at midnight of the first event's day
\* (origin="start_day"), run from the first event's bin to the last event's
\* bin, and an event with label <= ts < label + d falls in bin `label`.
\* The result maps each bin label to the sum of the sizes in the bin.
ResampleTickSum(evs, d) ==
  IF evs = {} THEN [l \in {} |-> 0]
  ELSE LET origin == DayStart(MinTs(evs))
           Label(t) == t - ((t - origin) % d)
           labels == { Label(MinTs(evs)) + k * d :
                         k \in 0 .. ((Label(MaxTs(evs)) - Label(MinTs(evs))) \div d) }
       IN [l \in labels |-> SumSizes({e \in evs : l <= e.ts /\ e.ts < l + d})]

\* midnight of the last day of month m
MonthEnd(m) == m * MinutesPerMonth + (MinutesPerMonth - MinutesPerDay)
\* index of the first month end at or after instant t
MonthEndAtOrAfter(t) ==
  LET m == t \div MinutesPerMonth IN IF t <= MonthEnd(m) THEN m ELSE m + 1

\* Series.resample(<n month ends>).sum(): the month-end defaults are
\* label="right", closed="right"; the edges are every n-th month end counted
\* from the first month end at or after the first event's day.
ResampleMonthSum(evs, n) ==
  IF evs = {} THEN [l \in {} |-> 0]
  ELSE LET a == MonthEndAtOrAfter(DayStart(MinTs(evs)))
           Bin(t) == (MonthEndAtOrAfter(t) - a + n - 1) \div n
           labels == { MonthEnd(a + j * n) : j \in 0 .. Bin(MaxTs(evs)) }
       IN [l \in labels |->
             SumSizes({e \in evs : MonthEnd(a + Bin(e.ts) * n) = l})]

\* <side events>.resample(offset ...).sum() for an offset pandas accepts
ResampleSum(evs, offset) ==
  IF offset.kind = "tick" THEN ResampleTickSum(evs, offset.minutes)
  ELSE ResampleMonthSum(evs, offset.months)

\* liq_df[liq_df["side"] == side][<size column>]
SideEvents(evs, side) == {e \in evs : e.side = side}

\* ----------------------------------------------------- pandas: join, rolling ---
\* One candle of the caller's OHLCV table: [ts, ohlcv]; ohlcv stands for the
\* five values Open, High, Low, Close, Volume of the candle.
\* One row of a feature table: the candle plus the six derived columns.
FeatureRow(c, buy, sell, buyAgg, sellAgg, avgBuy, avgSell) ==
  [ts |-> c.ts, ohlcv |-> c.ohlcv,
   Liq_Buy_Size |-> buy, Liq_Sell_Size |-> sell,
   Liq_Buy_Aggregated |-> buyAgg, Liq_Sell_Aggregated |-> sellAgg,
   Avg_Liq_Buy |-> avgBuy, Avg_Liq_Sell |-> avgSell]

\* zero columns of which the two averages are left undefined
ZeroRowWithoutAverages(c) ==
  FeatureRow(c, Num(0), Num(0), Num(0), Num(0), NaN, NaN)
\* ohlcv_df[col] = 0.0 for the six derived columns
ZeroRow(c) == FeatureRow(c, Num(0), Num(0), Num(0), Num(0), Num(0), Num(0))
ZeroRows(rows) == [i \in 1 .. Len(rows) |-> ZeroRow(rows[i])]

\* The cell a left join on the index gives candle c from a resampled
\* series: the bin labelled exactly c.ts, NaN when there is none.
JoinCell(c, agg) == IF c.ts \in DOMAIN agg THEN Num(agg[c.ts]) ELSE NaN

\* an inner join: only the candles with a bin in both series are kept
JoinBothInner(rows, agg_buy, agg_sell) ==
  LET kept == SelectSeq(rows, LAMBDA c : c.ts \in DOMAIN agg_buy
                                          /\ c.ts \in DOMAIN agg_sell)
  IN [i \in 1 .. Len(kept) |->
        [c |-> kept[i], buy |-> JoinCell(kept[i], agg_buy),
         sell |-> JoinCell(kept[i], agg_sell)]]
\* ohlcv_df.join(agg_buy, how="left").join(agg_sell, how="left"): every row
\* of the left table is kept, with the cell of each series next to it (the
\* labels of a resampled series are unique, so no row is repeated).
JoinBoth(rows, agg_buy, agg_sell) ==
  [i \in 1 .. Len(rows) |->
     [c |-> rows[i], buy |-> JoinCell(rows[i], agg_buy),
      sell |-> JoinCell(rows[i], agg_sell)]]

\* an emptiness test that never answers yes
EmptyNever(rows) == FALSE
\* DataFrame.empty of a candle table
Empty(rows) == rows = << >>

\* a trailing window that is one row too long
WindowStartOneEarlier(i, w) == Max(1, i - w)
\* first position of the trailing window of w rows that ends at row i
WindowStart(i, w) == Max(1, i - w + 1)

\* a rolling sum over the w rows that start at row i
RollingSumAhead(cells, w, i) ==
  LET obs == {j \in i .. i + w - 1 : j <= Len(cells) /\ ~IsNaN(cells[j])}
  IN IF obs = {} THEN NaN
     ELSE Num(SumOver([j \in obs |-> cells[j].num], obs))

\* Series.rolling(window=w, min_periods=1).sum() at row i: the sum of the
\* cells of the window that are not NaN, NaN when there is none.
RollingSum(cells, w, i) ==
  LET obs == {j \in WindowStart(i, w) .. i : ~IsNaN(cells[j])}
  IN IF obs = {} THEN NaN
     ELSE Num(SumOver([j \in obs |-> cells[j].num], obs))

\* Series.rolling(window=w, min_periods=1).mean() at row i: the sum of the
\* cells of the window that are not NaN over their number.
RollingMean(cells, w, i) ==
  LET obs == {j \in WindowStart(i, w) .. i : ~IsNaN(cells[j])}
  IN IF obs = {} THEN NaN
     ELSE [num |-> SumOver([j \in obs |-> cells[j].num], obs),
           den |-> Cardinality(obs)]

\* a range filter that forgets the lower bound
InRangeUpToEnd(rows, start_dt, end_dt) ==
  SelectSeq(rows, LAMBDA r : r.ts < end_dt)
\* df[(df.index >= start_dt) & (df.index < end_dt)]
InRange(rows, start_dt, end_dt) ==
  SelectSeq(rows, LAMBDA r : start_dt <= r.ts /\ r.ts < end_dt)

\* a fillna(0) that is left out
FillNaRowSkipped(r) == r
\* DataFrame.fillna(0) on the derived columns of one row
FillNaRow(r) ==
  [r EXCEPT !.Liq_Buy_Size = FillNa(@), !.Liq_Sell_Size = FillNa(@),
            !.Liq_Buy_Aggregated = FillNa(@), !.Liq_Sell_Aggregated = FillNa(@),
            !.Avg_Liq_Buy = FillNa(@), !.Avg_Liq_Sell = FillNa(@)]
FillNaRows(rows) == [i \in 1 .. Len(rows) |-> FillNaRow(rows[i])]

\* ------------------------------------------------------- what a call returns ---
\* kind "table": the call returned `rows`; `derived` tells whether the table
\* has the six derived columns (pd.DataFrame() has none); `merged` is the
\* table before the final range filter; kind "raise": the call raised `exc`.
\* `steps` are the pipeline stages the call went through, `window` and
\* `lookback_periods` the rolling windows it used (0 when it used none).
Returned(fn, path, derived, steps, window, lookback_periods, merged, rows) ==
  [fn |-> fn, kind |-> "table", path |-> path, exc |-> "", derived |-> derived,
   steps |-> steps, window |-> window, lookback_periods |-> lookback_periods,
   merged |-> merged, rows |-> rows]

Raised(fn, path, exc, steps) ==
  [fn |-> fn, kind |-> "raise", path |-> path, exc |-> exc, derived |-> FALSE,
   steps |-> steps, window |-> 0, lookback_periods |-> 0,
   merged |-> << >>, rows |-> << >>]

NoCall ==
  [fn |-> "", kind |-> "none", path |-> "", exc |-> "", derived |-> FALSE,
   steps |-> {}, window |-> 0, lookback_periods |-> 0,
   merged |-> << >>, rows |-> << >>]

\* The binned, aggregated and averaged table both backtest variants build
\* from the joined table: fillna(0.0) of the two size columns, rolling sum
\* over `window` rows, rolling mean over `lookback_periods` rows of the
\* sizes with 0 replaced by NaN.
MergeAndRoll(joined, window, lookback_periods) ==
  LET buy == [i \in 1 .. Len(joined) |-> FillNa(joined[i].buy)]
      sell == [i \in 1 .. Len(joined) |-> FillNa(joined[i].sell)]
      buyNz == [i \in 1 .. Len(joined) |-> ReplaceZeroByNaN(buy[i])]
      sellNz == [i \in 1 .. Len(joined) |-> ReplaceZeroByNaN(sell[i])]
  IN [i \in 1 .. Len(joined) |->
        FeatureRow(joined[i].c, buy[i], sell[i],
                   RollingSum(buy, window, i), RollingSum(sell, window, i),
                   RollingMean(buyNz, lookback_periods, i),
                   RollingMean(sellNz, lookback_periods, i))]

\* ohlcv_df.index = ohlcv_df.index.tz_localize("UTC") when the index is
\* naive: the caller's table gets the new index, whose instants are the
\* wall-clock values read as UTC.
Localized(df) == [df EXCEPT !.tz = "UTC"]

\* ------------------------------------------------- prepare_strategy_data ---
\* resample_freq of prepare_strategy_data: "m" -> "min", "h" -> "H",
\* "d" -> "D", anything else is handed to pandas unchanged.
StrategyResampleAlias(tf) ==
  CASE tf.u = "m" -> "min"
    [] tf.u = "h" -> "H"
    [] tf.u = "d" -> "D"
    [] OTHER -> tf.u

\* tf_minutes of the manual parsing (the timeframes of the model end in
\* m, h or d whenever this point is reached).
StrategyTfMinutes(tf) ==
  CASE tf.u = "m" -> tf.n
    [] tf.u = "h" -> tf.n * MinutesPerHour
    [] OTHER -> tf.n * MinutesPerHour * HoursPerDay

\* lookback_periods = max(1, int(timedelta(days) / timedelta(minutes)))
StrategyLookbackPeriods(days, tf) ==
  Max(1, (days * MinutesPerDay) \div StrategyTfMinutes(tf))

\* Zero columns added with DataFrame.insert, which raises ValueError when the
\* table already has the column.
StrategyZeroReturnByInsert(path, ohlcv_df, start_dt, end_dt) ==
  IF ohlcv_df.liqCols \/ ohlcv_df.tz = "naive"
  THEN [ret |-> Raised("prepare_strategy_data", path, "ValueError", {}),
        ohlcv_df |-> ohlcv_df]
  ELSE [ret |-> Returned("prepare_strategy_data", path, TRUE, {"trim"}, 0, 0,
                         ZeroRows(ohlcv_df.rows),
                         FillNaRows(InRange(ZeroRows(ohlcv_df.rows), start_dt, end_dt))),
        ohlcv_df |-> [ohlcv_df EXCEPT !.liqCols = TRUE]]
\* The three early returns that give the candles zeroed derived columns:
\* the columns are written into the caller's table, then the table is
\* filtered to [start_dt, end_dt) and fillna(0) is applied.  The filter
\* compares the index with the timezone-aware start_dt and end_dt: pandas
\* raises TypeError when the index is timezone-naive.
StrategyZeroReturn(path, ohlcv_df, start_dt, end_dt) ==
  IF ohlcv_df.tz = "naive"
  THEN [ret |-> Raised("prepare_strategy_data", path, "TypeError", {}),
        ohlcv_df |-> [ohlcv_df EXCEPT !.liqCols = TRUE]]
  ELSE [ret |-> Returned("prepare_strategy_data", path, TRUE, {"trim"}, 0, 0,
                         ZeroRows(ohlcv_df.rows),
                         FillNaRows(InRange(ZeroRows(ohlcv_df.rows), start_dt, end_dt))),
        ohlcv_df |-> [ohlcv_df EXCEPT !.liqCols = TRUE]]

prepare_strategy_data(ohlcv_df, liq_df, strategy_params, start_dt, end_dt, timeframe) ==
  LET offset == PandasOffset(timeframe.n, StrategyResampleAlias(timeframe))
      window == Max(1, strategy_params.liquidation_aggregation_minutes)
      lookback_periods ==
        StrategyLookbackPeriods(strategy_params.average_lookback_period_days,
                                timeframe)
      merged_df ==
        MergeAndRoll(JoinBoth(ohlcv_df.rows,
                              ResampleSum(SideEvents(liq_df.rows, "BUY"), offset),
                              ResampleSum(SideEvents(liq_df.rows, "SELL"), offset)),
                     window, lookback_periods)
  IN CASE Empty(ohlcv_df.rows) ->
            [ret |-> Returned("prepare_strategy_data", "empty_ohlcv", FALSE, {},
                              0, 0, << >>, << >>),
             ohlcv_df |-> ohlcv_df]
       [] ~Empty(ohlcv_df.rows) /\ liq_df.rows = {} ->
            StrategyZeroReturn("empty_liq", ohlcv_df, start_dt, end_dt)
       [] ~Empty(ohlcv_df.rows) /\ liq_df.rows # {} /\ liq_df.form = "bad" ->
            StrategyZeroReturn("bad_index", ohlcv_df, start_dt, end_dt)
       [] ~Empty(ohlcv_df.rows) /\ liq_df.rows # {} /\ liq_df.form # "bad"
          /\ offset.kind = "invalid" ->
            StrategyZeroReturn("resample_error", ohlcv_df, start_dt, end_dt)
       [] ~Empty(ohlcv_df.rows) /\ liq_df.rows # {} /\ liq_df.form # "bad"
          /\ offset.kind # "invalid" /\ ohlcv_df.liqCols ->
            \* DataFrame.join: the columns overlap, no suffix is given
            [ret |-> Raised("prepare_strategy_data", "join", "ValueError",
                            {"resample"}),
             ohlcv_df |-> Localized(ohlcv_df)]
       [] OTHER ->
            \* a naive candle index and naive bin labels are localized to
            \* UTC before the join
            [ret |-> Returned("prepare_strategy_data", "normal", TRUE,
                              {"resample", "join", "rolling_sum", "rolling_mean",
                               "trim"},
                              window, lookback_periods, merged_df,
                              FillNaRows(InRange(merged_df, start_dt, end_dt))),
             ohlcv_df |-> Localized(ohlcv_df)]

\* ------------------------------------------------------------ prepare_data ---
\* fetch_ohlcv(symbol, timeframe, start, end): the exchange's candles of the
\* timeframe, filtered to start <= ts < end on the cache path and on the
\* download path alike.
fetch_ohlcv(candles, start, end) == InRange(candles, start, end)

\* fetch_liquidations(symbol, timeframe, start, end): the events the API or
\* the cache holds for start <= ts < end.
fetch_liquidations(evs, start, end) ==
  {e \in evs : start <= e.ts /\ e.ts < end}

\* a fetch that starts at the requested start, without the lookback days
FetchStartNoLookback(start_dt, average_lookback_period_days) == start_dt

\* fetch_start_dt = start_dt - timedelta(days=average_lookback_period_days)
FetchStart(start_dt, average_lookback_period_days) == start_dt - average_lookback_period_days * MinutesPerDay

\* resample_freq of prepare_data: only a trailing "m" is rewritten
DataResampleAlias(tf) == IF tf.u = "m" THEN "min" ELSE tf.u

\* tf_minutes of prepare_data: 1 unless the timeframe ends in m, h or d
DataTfMinutes(tf) ==
  CASE tf.u = "m" -> tf.n
    [] tf.u = "h" -> tf.n * MinutesPerHour
    [] tf.u = "d" -> tf.n * MinutesPerHour * HoursPerDay
    [] OTHER -> 1

\* lookback_periods = int((days * 24 * 60) / tf_minutes)
DataLookbackPeriods(days, tf) ==
  (days * HoursPerDay * MinutesPerHour) \div DataTfMinutes(tf)

\* prepare_data of src/src/data_fetcher.py; `candles` and `evs` are what the
\* exchange and the liquidation API hold.  rolling(window=w, min_periods=1)
\* raises ValueError for w < 1.
prepare_data(candles, evs, timeframe, start_dt, end_dt, liquidation_aggregation_minutes, average_lookback_period_days) ==
  LET fetch_start_dt == FetchStart(start_dt, average_lookback_period_days)
      ohlcv_rows == fetch_ohlcv(candles, fetch_start_dt, end_dt)
      liq_rows == fetch_liquidations(evs, fetch_start_dt, end_dt)
      offset == PandasOffset(timeframe.n, DataResampleAlias(timeframe))
      window == liquidation_aggregation_minutes
      lookback_periods ==
        DataLookbackPeriods(average_lookback_period_days, timeframe)
      merged_df ==
        FillNaRows(MergeAndRoll(
                     JoinBoth(ohlcv_rows,
                              ResampleSum(SideEvents(liq_rows, "BUY"), offset),
                              ResampleSum(SideEvents(liq_rows, "SELL"), offset)),
                     window, lookback_periods))
  IN CASE Empty(ohlcv_rows) ->
            Returned("prepare_data", "empty_ohlcv", FALSE, {}, 0, 0, << >>, << >>)
       [] ~Empty(ohlcv_rows) /\ liq_rows = {} ->
            Returned("prepare_data", "empty_liq", TRUE, {"trim"}, 0, 0,
                     ZeroRows(ohlcv_rows),
                     InRange(ZeroRows(ohlcv_rows), start_dt, end_dt))
       [] ~Empty(ohlcv_rows) /\ liq_rows # {} /\ offset.kind = "invalid" ->
            Raised("prepare_data", "resample", "ValueError", {})
       [] ~Empty(ohlcv_rows) /\ liq_rows # {} /\ offset.kind # "invalid"
          /\ window < 1 ->
            Raised("prepare_data", "rolling_sum", "ValueError",
                   {"resample", "join"})
       [] ~Empty(ohlcv_rows) /\ liq_rows # {} /\ offset.kind # "invalid"
          /\ window >= 1 /\ lookback_periods < 1 ->
            Raised("prepare_data", "rolling_mean", "ValueError",
                   {"resample", "join", "rolling_sum"})
       [] OTHER ->
            Returned("prepare_data", "normal", TRUE,
                     {"resample", "join", "rolling_sum", "rolling_mean", "trim"},
                     window, lookback_periods, merged_df,
                     FillNaRows(InRange(merged_df, start_dt, end_dt)))

\* ------------------------------------------------ process_liquidation_data ---
\* _timeframe_to_minutes: 0 stands for its ValueError
_timeframe_to_minutes(tf) ==
  CASE tf.u = "m" -> tf.n
    [] tf.u = "h" -> tf.n * MinutesPerHour
    [] tf.u = "d" -> tf.n * HoursPerDay * MinutesPerHour
    [] OTHER -> 0

\* The augmented table of the Freqtrade variant: sizes reindexed on the
\* candle index and filled with 0.0, rolling sum, plain rolling mean, and
\* fillna(0.0) of the four rolling columns.
AugmentAndRoll(rows, liq_buy_size, liq_sell_size, aggregation_window_candles, average_window_candles) ==
  LET buy == [i \in 1 .. Len(rows) |-> FillNa(JoinCell(rows[i], liq_buy_size))]
      sell == [i \in 1 .. Len(rows) |-> FillNa(JoinCell(rows[i], liq_sell_size))]
  IN [i \in 1 .. Len(rows) |->
        FeatureRow(rows[i], buy[i], sell[i],
                   FillNa(RollingSum(buy, aggregation_window_candles, i)),
                   FillNa(RollingSum(sell, aggregation_window_candles, i)),
                   FillNa(RollingMean(buy, average_window_candles, i)),
                   FillNa(RollingMean(sell, average_window_candles, i)))]

process_liquidation_data(ohlcv_df, raw_liq_df, strategy_params, timeframe_str) ==
  LET offset == PandasOffset(timeframe_str.n, timeframe_str.u)
      candle_duration_minutes == _timeframe_to_minutes(timeframe_str)
      aggregation_window_candles ==
        Max(1, strategy_params.liquidation_aggregation_minutes
                 \div candle_duration_minutes)
      average_window_candles ==
        Max(1, (strategy_params.average_lookback_period_days
                  * HoursPerDay * MinutesPerHour) \div candle_duration_minutes)
      augmented_df ==
        AugmentAndRoll(ohlcv_df.rows,
                       ResampleSum(SideEvents(raw_liq_df.rows, "BUY"), offset),
                       ResampleSum(SideEvents(raw_liq_df.rows, "SELL"), offset),
                       aggregation_window_candles, average_window_candles)
  IN CASE Empty(ohlcv_df.rows) ->
            \* the columns are added to the caller's empty table, which is returned
            [ret |-> Returned("process_liquidation_data", "empty_ohlcv", TRUE, {},
                              0, 0, << >>, << >>),
             ohlcv_df |-> [ohlcv_df EXCEPT !.liqCols = TRUE]]
       [] ~Empty(ohlcv_df.rows) /\ raw_liq_df.rows = {} ->
            \* the zero columns are added to the caller's table, which is
            \* returned; its index was localized before
            [ret |-> Returned("process_liquidation_data", "empty_liq", TRUE, {},
                              0, 0, ZeroRows(ohlcv_df.rows), ZeroRows(ohlcv_df.rows)),
             ohlcv_df |-> [Localized(ohlcv_df) EXCEPT !.liqCols = TRUE]]
       [] ~Empty(ohlcv_df.rows) /\ raw_liq_df.rows # {}
          /\ raw_liq_df.form # "column" ->
            [ret |-> Raised("process_liquidation_data", "timestamp", "KeyError", {}),
             ohlcv_df |-> Localized(ohlcv_df)]
       [] ~Empty(ohlcv_df.rows) /\ raw_liq_df.rows # {}
          /\ raw_liq_df.form = "column" /\ offset.kind = "invalid" ->
            [ret |-> Raised("process_liquidation_data", "resample", "ValueError", {}),
             ohlcv_df |-> Localized(ohlcv_df)]
       [] ~Empty(ohlcv_df.rows) /\ raw_liq_df.rows # {}
          /\ raw_liq_df.form = "column" /\ offset.kind # "invalid"
          /\ ohlcv_df.liqCols ->
            [ret |-> Raised("process_liquidation_data", "join", "ValueError",
                            {"resample"}),
             ohlcv_df |-> Localized(ohlcv_df)]
       [] ~Empty(ohlcv_df.rows) /\ raw_liq_df.rows # {}
          /\ raw_liq_df.form = "column" /\ offset.kind # "invalid"
          /\ ~ohlcv_df.liqCols /\ candle_duration_minutes = 0 ->
            [ret |-> Raised("process_liquidation_data", "_timeframe_to_minutes",
                            "ValueError", {"resample", "join"}),
             ohlcv_df |-> Localized(ohlcv_df)]
       [] OTHER ->
            [ret |-> Returned("process_liquidation_data", "normal", TRUE,
                              {"resample", "join", "rolling_sum", "rolling_mean"},
                              aggregation_window_candles, average_window_candles,
                              augmented_df, augmented_df),
             ohlcv_df |-> Localized(ohlcv_df)]

\* ------------------------------------------------------------- the requests ---
\* Candle k of the exchange's grid of a timeframe: it opens at k * D.
Candle(k, tf) == [ts |-> k * GridMinutes(tf), ohlcv |-> k + 1]

RECURSIVE GridRows(_, _)
\* the candle table of the grid slots K, in time order (gaps are allowed)
GridRows(K, tf) ==
  IF K = {} THEN << >>
  ELSE LET k == CHOOSE x \in K : \A y \in K : x <= y
       IN << Candle(k, tf) >> \o GridRows(K \ {k}, tf)

\* Event instants: every candle open and every candle middle of the grid
\* slots.  The event placed at the j-th instant has size j + 1, so a sum of
\* sizes tells which events it holds.
EventChoices(tf) ==
  { [ts |-> (j * GridMinutes(tf)) \div 2, side |-> s, size |-> j + 1] :
      j \in 0 .. 2 * MaxCandles - 1, s \in Sides }

RECURSIVE EventSetsUpTo(_, _)
\* the sets of at most n events of a timeframe's event choices
EventSetsUpTo(n, tf) ==
  IF n = 0 THEN { {} }
  ELSE LET smaller == EventSetsUpTo(n - 1, tf)
       IN smaller \cup { E \cup {e} : E \in smaller, e \in EventChoices(tf) }

EventSets(tf) == EventSetsUpTo(MaxEvents, tf)

\* The shapes of a request: the two window parameters, the requested range
\* [first * D, last * D) in grid slots, and the form of the liquidation
\* table handed to prepare_strategy_data and process_liquidation_data:
\* "column" has a 'timestamp' column, "bad" has neither that column nor a
\* datetime index.
RequestShapes ==
  { [agg |-> 2, look |-> 2, first |-> 1, last |-> MaxCandles, form |-> "column"],
    [agg |-> 1, look |-> 1, first |-> 0, last |-> MaxCandles - 1, form |-> "bad"],
    [agg |-> 0, look |-> 0, first |-> 0, last |-> MaxCandles, form |-> "column"] }

VARIABLES
  timeframe,        \* the timeframe string of the request
  ohlcv_df,         \* the caller's candle table: [rows, liqCols, tz]; liqCols
                    \* tells whether it carries the six derived columns
  liq_df,           \* the caller's liquidation table: [rows, form, tz]
  strategy_params,  \* liquidation_aggregation_minutes, average_lookback_period_days
  start_dt,         \* requested range [start_dt, end_dt)
  end_dt,
  out,              \* what the last call returned or raised
  \* execute_optimization_loops
  batch_pc,                      \* "idle", "strategy_loop", "symbol_loop",
                                 \* "returned" or "exited" (SystemExit)
  strategy_index,                \* position in active_strategies
  symbol_index,                  \* position in symbols
  strategy_all_symbols_results,  \* results of the current strategy
  all_strategies_results,        \* results of all strategies
  visited,                       \* history: loop bodies that were entered
  succeeded,                     \* history: units that produced a result
  \* CounterTradeStrategy or FollowTheFlowStrategy on a backtesting.py run
  strategy_class,            \* the class name, "" when no run
  variant,                   \* "src", "backtesting_py" or "freqtrade", ""
                             \* when no run
  modus,                     \* "buy", "sell" or "both"
  cooldown_candles,
  exit_on_opposite_signal,
  signal_cooldown_counter,
  pending_trade_type,        \* "buy", "sell" or "none" (None)
  position,                  \* "flat", "long" or "short"
  orders,                    \* what the broker executes at the next open:
                             \* [close, entry]
  last,                      \* history: the latest call of next()
  candles_since_signal,      \* history: calls of next() since the latest
                             \* detected signal, capped at cooldown_candles + 1
  signal_type,               \* history: the latest detected signal
  dataframe,                 \* the Freqtrade dataframe: [rows, columns_ok,
                             \* populated]
  \* build_param_grid on one optimization range
  range_settings,            \* [start, end, step] of the config
  param_grid,                \* [built, exit, values]
  \* the pagination loop of fetch_ohlcv, time in candle slots
  fetch_pc,                  \* "idle", "loop", "after_loop" or "returned"
  start_ms,
  end_ms,
  current_ms,
  all_ohlcv,                 \* the candle timestamps collected so far
  attempt,                   \* parity of the number of requests sent
  fetched_df                 \* the table fetch_ohlcv returns

pipelineVars == << timeframe, ohlcv_df, liq_df, strategy_params, start_dt, end_dt, out >>

batchVars == << batch_pc, strategy_index, symbol_index, strategy_all_symbols_results, all_strategies_results, visited, succeeded >>

strategyParams == << strategy_class, variant, modus, cooldown_candles, exit_on_opposite_signal >>

strategyVars == << strategyParams, signal_cooldown_counter, pending_trade_type, position, orders, last, candles_since_signal, signal_type, dataframe >>

gridVars == << range_settings, param_grid >>

fetchVars == << fetch_pc, start_ms, end_ms, current_ms, all_ohlcv, attempt, fetched_df >>

vars == << pipelineVars, batchVars, strategyVars, gridVars, fetchVars >>

NoGrid == [built |-> FALSE, exit |-> FALSE, values |-> << >>]

\* no parameter grid is being built
GridIdle ==
  /\ range_settings = [start |-> 0, end |-> 0, step |-> 1]
  /\ param_grid = NoGrid

\* no fetch is in progress
FetchIdle ==
  /\ fetch_pc = "idle"
  /\ start_ms = 0
  /\ end_ms = 0
  /\ current_ms = 0
  /\ all_ohlcv = << >>
  /\ attempt = 0
  /\ fetched_df = << >>

\* the record of a call of next(): the position it found, the candle's row,
\* the entry order it placed, whether it called position.close(), and the
\* signal it detected
NoCandle ==
  [position |-> "flat", row |-> [Liq_Buy_Aggregated |-> 0, Avg_Liq_Buy |-> 0, Liq_Sell_Aggregated |-> 0, Avg_Liq_Sell |-> 0], placed |-> "none", closed |-> FALSE, detected |-> "none"]

NoOrders == [close |-> FALSE, entry |-> "none"]

NoDataframe == [rows |-> << >>, columns_ok |-> TRUE, populated |-> FALSE]

\* no strategy run is in progress
StrategyIdle ==
  /\ strategy_class = ""
  /\ variant = ""
  /\ modus = "both"
  /\ cooldown_candles = 0
  /\ exit_on_opposite_signal = FALSE
  /\ signal_cooldown_counter = 0
  /\ pending_trade_type = "none"
  /\ position = "flat"
  /\ orders = NoOrders
  /\ last = NoCandle
  /\ candles_since_signal = 1
  /\ signal_type = "none"
  /\ dataframe = NoDataframe

\* no batch run is in progress
BatchIdle ==
  /\ batch_pc = "idle"
  /\ strategy_index = 0
  /\ symbol_index = 0
  /\ strategy_all_symbols_results = << >>
  /\ all_strategies_results = << >>
  /\ visited = {}
  /\ succeeded = << >>

\* A request whose candle table and liquidation table have the given tz.
Request(ohlcv_tz, liq_tz) ==
  /\ timeframe \in TimeFrames
  /\ \E K \in SUBSET (0 .. MaxCandles - 1) :
       ohlcv_df = [rows |-> GridRows(K, timeframe), liqCols |-> FALSE,
                   tz |-> ohlcv_tz]
  /\ \E E \in EventSets(timeframe), s \in RequestShapes :
       /\ liq_df = [rows |-> E, form |-> s.form, tz |-> liq_tz]
       /\ strategy_params = [liquidation_aggregation_minutes |-> s.agg,
                             average_lookback_period_days |-> s.look]
       /\ start_dt = s.first * GridMinutes(timeframe)
       /\ end_dt = s.last * GridMinutes(timeframe)
  /\ out = NoCall
  /\ BatchIdle
  /\ StrategyIdle
  /\ GridIdle
  /\ FetchIdle

Init == Request("UTC", "UTC")

\* requests with a naive candle index, naive event timestamps, or both
InitTz ==
  \/ Request("naive", "UTC")
  \/ Request("UTC", "naive")
  \/ Request("naive", "naive")

\* The caller runs prepare_strategy_data on its two tables.
PrepareStrategyData ==
  LET r == prepare_strategy_data(ohlcv_df, liq_df, strategy_params,
                                 start_dt, end_dt, timeframe)
  IN /\ out' = r.ret
     /\ ohlcv_df' = r.ohlcv_df
     /\ UNCHANGED << timeframe, liq_df, strategy_params, start_dt, end_dt >>
     /\ UNCHANGED << batchVars, strategyVars, gridVars, fetchVars >>

\* The caller runs prepare_data, which fetches the candles and the events
\* itself: the rows of the caller's tables are what the exchange and the
\* API hold, and the table fetch_liquidations builds from them always has
\* the 'timestamp' column.
PrepareData ==
  /\ out' = prepare_data(ohlcv_df.rows, liq_df.rows, timeframe, start_dt, end_dt,
                         strategy_params.liquidation_aggregation_minutes,
                         strategy_params.average_lookback_period_days)
  /\ UNCHANGED << timeframe, ohlcv_df, liq_df, strategy_params, start_dt, end_dt >>
  /\ UNCHANGED << batchVars, strategyVars, gridVars, fetchVars >>

\* The Freqtrade strategy runs process_liquidation_data on its two tables.
ProcessLiquidationData ==
  LET r == process_liquidation_data(ohlcv_df, liq_df, strategy_params, timeframe)
  IN /\ out' = r.ret
     /\ ohlcv_df' = r.ohlcv_df
     /\ UNCHANGED << timeframe, liq_df, strategy_params, start_dt, end_dt >>
     /\ UNCHANGED << batchVars, strategyVars, gridVars, fetchVars >>

Next == PrepareStrategyData \/ PrepareData \/ ProcessLiquidationData

Spec == Init /\ [][Next]_vars

SpecTz == InitTz /\ [][Next]_vars

\* ------------------------------------------------ execute_optimization_loops ---
\* What the file system holds for a strategy name: the state of its
\* strategies_config/<name>/settings.toml and of its strategy module.
StrategyConfigs == {"ok", "missing_file", "no_optimization_ranges", "bad_step"}

StrategyModules == {"ok", "missing_module", "no_strategy_class"}

\* What happens in the body of the symbol loop for one (strategy, symbol).
UnitOutcomes == {"result", "import_error", "prepare_raises", "empty_data", "missing_columns", "optimize_raises"}

\* load_strategy_config: sys.exit(1) when the settings file does not exist
load_strategy_config(config) == IF config = "missing_file" THEN "SystemExit" ELSE "config"

\* the exits of build_param_grid: sys.exit(1) when 'optimization_ranges' is
\* missing or empty and when a range has a step that is not a positive number
BuildParamGridExit(config) == IF config \in {"no_optimization_ranges", "bad_step"} THEN "SystemExit" ELSE "grid"

\* run_optimization catches every exception of bt.optimize and returns
\* (None, None); process_and_save_results returns None for stats None, and
\* only a result that is not None is appended.
UnitResults(outcome, unit) == IF outcome = "result" THEN << unit >> ELSE << >>

\* a run of execute_optimization_loops starts, no pipeline call is under way
InitBatch ==
  /\ timeframe = [n |-> 1, u |-> "m"]
  /\ ohlcv_df = [rows |-> << >>, liqCols |-> FALSE, tz |-> "UTC"]
  /\ liq_df = [rows |-> {}, form |-> "column", tz |-> "UTC"]
  /\ strategy_params = [liquidation_aggregation_minutes |-> 0, average_lookback_period_days |-> 0]
  /\ start_dt = 0
  /\ end_dt = 0
  /\ out = NoCall
  /\ batch_pc = "strategy_loop"
  /\ strategy_index = 1
  /\ symbol_index = 0
  /\ strategy_all_symbols_results = << >>
  /\ all_strategies_results = << >>
  /\ visited = {}
  /\ succeeded = << >>
  /\ StrategyIdle
  /\ GridIdle
  /\ FetchIdle

\* The head of the strategy loop body: load the config, import the module,
\* find the class, build the grid.
StrategyLoopBody ==
  /\ batch_pc = "strategy_loop"
  /\ strategy_index <= MaxStrategies
  /\ visited' = visited \cup {<< strategy_index, 0 >>}
  /\ \E config \in StrategyConfigs, module \in StrategyModules :
       IF load_strategy_config(config) = "SystemExit"
       THEN /\ batch_pc' = "exited"
            /\ strategy_all_symbols_results' = << >>
            /\ UNCHANGED << strategy_index, symbol_index >>
       ELSE IF module # "ok"
       THEN /\ strategy_index' = strategy_index + 1
            /\ strategy_all_symbols_results' = << >>
            /\ UNCHANGED << batch_pc, symbol_index >>
       ELSE IF BuildParamGridExit(config) = "SystemExit"
       THEN /\ batch_pc' = "exited"
            /\ strategy_all_symbols_results' = << >>
            /\ UNCHANGED << strategy_index, symbol_index >>
       ELSE /\ batch_pc' = "symbol_loop"
            /\ symbol_index' = 1
            /\ strategy_all_symbols_results' = << >>
            /\ UNCHANGED strategy_index
  /\ UNCHANGED << all_strategies_results, succeeded >>
  /\ UNCHANGED << pipelineVars, strategyVars, gridVars, fetchVars >>

\* One pass of the symbol loop body: data preparation, validation, the
\* metric and mode loops, the symbol summary.
SymbolLoopBody ==
  /\ batch_pc = "symbol_loop"
  /\ symbol_index <= MaxSymbols
  /\ visited' = visited \cup {<< strategy_index, symbol_index >>}
  /\ \E outcome \in UnitOutcomes :
       LET results == UnitResults(outcome, << strategy_index, symbol_index >>)
       IN /\ strategy_all_symbols_results' = strategy_all_symbols_results \o results
          /\ succeeded' = succeeded \o results
  /\ symbol_index' = symbol_index + 1
  /\ UNCHANGED << batch_pc, strategy_index, all_strategies_results >>
  /\ UNCHANGED << pipelineVars, strategyVars, gridVars, fetchVars >>

\* The tail of the strategy loop body, after the symbol loop: the strategy
\* summary and the collection of the strategy's results.
StrategyLoopTail ==
  /\ batch_pc = "symbol_loop"
  /\ symbol_index > MaxSymbols
  /\ all_strategies_results' = all_strategies_results \o strategy_all_symbols_results
  /\ strategy_index' = strategy_index + 1
  /\ batch_pc' = "strategy_loop"
  /\ UNCHANGED << symbol_index, strategy_all_symbols_results, visited, succeeded >>
  /\ UNCHANGED << pipelineVars, strategyVars, gridVars, fetchVars >>

\* return all_strategies_results
ReturnResults ==
  /\ batch_pc = "strategy_loop"
  /\ strategy_index > MaxStrategies
  /\ batch_pc' = "returned"
  /\ UNCHANGED << strategy_index, symbol_index, strategy_all_symbols_results, all_strategies_results, visited, succeeded >>
  /\ UNCHANGED << pipelineVars, strategyVars, gridVars, fetchVars >>

NextBatch == StrategyLoopBody \/ SymbolLoopBody \/ StrategyLoopTail \/ ReturnResults

SpecBatch == InitBatch /\ [][NextBatch]_vars

\* ------------------------------------------------------ CounterTradeStrategy ---
\* The candle rows a strategy run reads: an aggregated value that equals the
\* threshold (average 1 times the multiplier) or exceeds it by one.
StrategyRows ==
  { [Liq_Buy_Aggregated |-> b, Avg_Liq_Buy |-> 1, Liq_Sell_Aggregated |-> s, Avg_Liq_Sell |-> 1] : b \in {4, 5}, s \in {4, 5} }

average_liquidation_multiplier == 4

\* a buy signal that also fires at the threshold
BuySignalAtThreshold(row) == row.Liq_Buy_Aggregated >= row.Avg_Liq_Buy * average_liquidation_multiplier

\* buy_signal = buy_liq_agg > avg_buy_liq * average_liquidation_multiplier
BuySignal(row) == row.Liq_Buy_Aggregated > row.Avg_Liq_Buy * average_liquidation_multiplier

\* sell_signal = sell_liq_agg > avg_sell_liq * average_liquidation_multiplier
SellSignal(row) == row.Liq_Sell_Aggregated > row.Avg_Liq_Sell * average_liquidation_multiplier

CanBuy(m) == m = "buy" \/ m = "both"

CanSellAlways(m) == TRUE

CanSell(m) == m = "sell" \/ m = "both"

\* a countdown that leaves the counter as it is
CountedDownStuck(counter) == counter

\* the countdown at the head of next()
CountedDown(counter) == IF counter > 0 THEN counter - 1 ELSE counter

\* trade_ready_after_cooldown
TradeReady(counter, pending) ==
  counter > 0 /\ CountedDown(counter) = 0 /\ pending # "none"

\* what a call of next() leaves: the two cooldown fields, the entry order it
\* placed, whether it closed the position, the signal it detected
Step(counter, pending, placed, closed, detected) ==
  [signal_cooldown_counter |-> counter, pending_trade_type |-> pending, placed |-> placed, closed |-> closed, detected |-> detected]

\* new signal detection of src/src/strategies/counter-trade/strategy.py:
\* the first signal in turn starts the cooldown
DetectSrc(pos, counter, pending, row, m, k) ==
  IF pos = "flat" /\ counter <= 0
  THEN IF BuySignal(row) /\ CanBuy(m) THEN Step(k, "buy", "none", FALSE, "buy")
       ELSE IF SellSignal(row) /\ CanSell(m) THEN Step(k, "sell", "none", FALSE, "sell")
       ELSE Step(counter, pending, "none", FALSE, "none")
  ELSE Step(counter, pending, "none", FALSE, "none")

\* CounterTradeStrategy.next of src/src/strategies/counter-trade/strategy.py
NextSrc(pos, counter, pending, row, m, k, exit) ==
  LET c == CountedDown(counter)
      ready == TradeReady(counter, pending)
      closed == /\ pos # "flat" /\ exit
                /\ \/ pos = "long" /\ SellSignal(row)
                   \/ pos = "short" /\ BuySignal(row)
  IN IF pos # "flat" /\ ~ready THEN Step(c, pending, "none", FALSE, "none")
     ELSE IF ready
     THEN IF pending = "buy" /\ CanBuy(m) THEN Step(c, "none", "buy", closed, "none")
          ELSE IF pending = "sell" /\ CanSell(m) THEN Step(c, "none", "sell", closed, "none")
          ELSE Step(c, pending, "none", closed, "none")
     ELSE DetectSrc(pos, c, pending, row, m, k)

\* new signal detection of the backtesting_py copy: a buy entry on high SELL
\* liquidations, a sell entry on high BUY liquidations when nothing is pending
DetectBacktestingPy(pos, counter, pending, row, m, k) ==
  IF pos = "flat" /\ counter <= 0
  THEN IF CanBuy(m) /\ SellSignal(row) THEN Step(k, "buy", "none", FALSE, "buy")
       ELSE IF CanSell(m) /\ pending = "none" /\ BuySignal(row) THEN Step(k, "sell", "none", FALSE, "sell")
       ELSE Step(counter, pending, "none", FALSE, "none")
  ELSE Step(counter, pending, "none", FALSE, "none")

\* CounterTradeStrategy.next of
\* src/backtesting_py/src/strategies/counter-trade/strategy.py
NextBacktestingPy(pos, counter, pending, row, m, k, exit) ==
  LET c == CountedDown(counter)
      ready == TradeReady(counter, pending)
      opposite == \/ pos = "long" /\ BuySignal(row)
                  \/ pos = "short" /\ SellSignal(row)
  IN IF pos # "flat"
     THEN IF exit /\ opposite THEN Step(0, "none", "none", TRUE, "none")
          ELSE Step(c, pending, "none", FALSE, "none")
     ELSE IF ready /\ pending = "buy" /\ CanBuy(m) THEN Step(c, "none", "buy", FALSE, "none")
     ELSE IF ready /\ pending = "sell" /\ CanSell(m) THEN Step(c, "none", "sell", FALSE, "none")
     ELSE DetectBacktestingPy(pos, c, IF ready THEN "none" ELSE pending, row, m, k)

\* FollowTheFlowStrategy.next of src/src/strategies/follow-the-flow/strategy.py
\* without its position check
NextFollowSrcNoPositionCheck(pos, row, m) ==
  IF BuySignal(row) /\ CanBuy(m) THEN Step(0, "none", "buy", FALSE, "none")
  ELSE IF SellSignal(row) /\ CanSell(m) THEN Step(0, "none", "sell", FALSE, "none")
  ELSE Step(0, "none", "none", FALSE, "none")

\* FollowTheFlowStrategy.next of src/src/strategies/follow-the-flow/strategy.py
NextFollowSrc(pos, row, m) ==
  IF pos # "flat" THEN Step(0, "none", "none", FALSE, "none")
  ELSE IF BuySignal(row) /\ CanBuy(m) THEN Step(0, "none", "buy", FALSE, "none")
  ELSE IF SellSignal(row) /\ CanSell(m) THEN Step(0, "none", "sell", FALSE, "none")
  ELSE Step(0, "none", "none", FALSE, "none")

\* FollowTheFlowStrategy.next of
\* src/backtesting_py/src/strategies/follow-the-flow/strategy.py
NextFollowBacktestingPy(pos, row, m, exit) ==
  LET opposite == \/ pos = "long" /\ SellSignal(row)
                  \/ pos = "short" /\ BuySignal(row)
  IN IF pos # "flat" THEN Step(0, "none", "none", exit /\ opposite, "none")
     ELSE IF CanBuy(m) /\ BuySignal(row) THEN Step(0, "none", "buy", FALSE, "none")
     ELSE IF CanSell(m) /\ SellSignal(row) THEN Step(0, "none", "sell", FALSE, "none")
     ELSE Step(0, "none", "none", FALSE, "none")

\* The positions the broker can leave at a candle's open, before next()
\* runs: a close order empties the position; an entry order opens or adds to
\* a position, nets against an opposite one, or is rejected; a stop-loss or
\* take-profit can close whatever is open.
BrokerOutcomes(pos, ords) ==
  LET afterClose == IF ords.close THEN "flat" ELSE pos
      side == IF ords.entry = "buy" THEN "long" ELSE "short"
      afterEntry ==
        IF ords.entry = "none" THEN {afterClose}
        ELSE IF afterClose \in {"flat", side} THEN {afterClose, side}
        ELSE {afterClose, "flat", side}
  IN afterEntry \cup {"flat"}

\* a run of Backtest on a prepared table starts: init() has run
InitStrategy ==
  /\ timeframe = [n |-> 1, u |-> "m"]
  /\ ohlcv_df = [rows |-> << >>, liqCols |-> FALSE, tz |-> "UTC"]
  /\ liq_df = [rows |-> {}, form |-> "column", tz |-> "UTC"]
  /\ strategy_params = [liquidation_aggregation_minutes |-> 0, average_lookback_period_days |-> 0]
  /\ start_dt = 0
  /\ end_dt = 0
  /\ out = NoCall
  /\ BatchIdle
  /\ GridIdle
  /\ FetchIdle
  /\ strategy_class \in {"CounterTradeStrategy", "FollowTheFlowStrategy"}
  /\ variant \in {"src", "backtesting_py"}
  /\ modus \in {"buy", "sell", "both"}
  /\ cooldown_candles \in
       IF strategy_class = "CounterTradeStrategy" THEN 0 .. MaxCooldown ELSE {0}
  /\ exit_on_opposite_signal \in BOOLEAN
  /\ signal_cooldown_counter = 0
  /\ pending_trade_type = "none"
  /\ position = "flat"
  /\ orders = NoOrders
  /\ last = NoCandle
  /\ candles_since_signal = cooldown_candles + 1
  /\ signal_type = "none"
  /\ dataframe = NoDataframe

\* One candle of the run: the broker executes the orders of the previous
\* candle and the stops, then the strategy's next() reads the candle's row.
RunCandle(pos, row, step) ==
  /\ position' = pos
  /\ signal_cooldown_counter' = step.signal_cooldown_counter
  /\ pending_trade_type' = step.pending_trade_type
  /\ orders' = [close |-> step.closed, entry |-> step.placed]
  /\ last' = [position |-> pos, row |-> row, placed |-> step.placed, closed |-> step.closed, detected |-> step.detected]
  /\ candles_since_signal' =
       IF step.detected # "none" THEN 0
       ELSE IF candles_since_signal <= cooldown_candles THEN candles_since_signal + 1
       ELSE candles_since_signal
  /\ signal_type' = IF step.detected # "none" THEN step.detected ELSE signal_type
  /\ UNCHANGED << strategyParams, dataframe, pipelineVars, batchVars, gridVars, fetchVars >>

CandleSrc ==
  /\ strategy_class = "CounterTradeStrategy"
  /\ variant = "src"
  /\ \E pos \in BrokerOutcomes(position, orders), row \in StrategyRows :
       RunCandle(pos, row, NextSrc(pos, signal_cooldown_counter, pending_trade_type, row, modus, cooldown_candles, exit_on_opposite_signal))

CandleBacktestingPy ==
  /\ strategy_class = "CounterTradeStrategy"
  /\ variant = "backtesting_py"
  /\ \E pos \in BrokerOutcomes(position, orders), row \in StrategyRows :
       RunCandle(pos, row, NextBacktestingPy(pos, signal_cooldown_counter, pending_trade_type, row, modus, cooldown_candles, exit_on_opposite_signal))

CandleFollowSrc ==
  /\ strategy_class = "FollowTheFlowStrategy"
  /\ variant = "src"
  /\ \E pos \in BrokerOutcomes(position, orders), row \in StrategyRows :
       RunCandle(pos, row, NextFollowSrc(pos, row, modus))

CandleFollowBacktestingPy ==
  /\ strategy_class = "FollowTheFlowStrategy"
  /\ variant = "backtesting_py"
  /\ \E pos \in BrokerOutcomes(position, orders), row \in StrategyRows :
       RunCandle(pos, row, NextFollowBacktestingPy(pos, row, modus, exit_on_opposite_signal))

\* ---------------------------------- Freqtrade FollowTheFlowStrategy entries ---
\* a dataframe row before populate_entry_trend: the indicator values, and no
\* 'enter_long' or 'enter_short' cell yet (read back as NaN)
EntryRow(row) == [row |-> row, enter_long |-> NaN, enter_short |-> NaN]

RECURSIVE RowSeqsUpTo(_)
\* the sequences of at most n strategy rows
RowSeqsUpTo(n) ==
  IF n = 0 THEN { << >> }
  ELSE LET shorter == RowSeqsUpTo(n - 1)
       IN shorter \cup { Append(q, EntryRow(r)) : q \in shorter, r \in StrategyRows }

\* dataframe.loc[condition, "enter_<side>"] = 1 when the modus allows the
\* side, dataframe["enter_<side>"] = 0 otherwise
EntryCell(allowed, condition, cell) ==
  IF ~allowed THEN Num(0) ELSE IF condition THEN Num(1) ELSE cell

\* FollowTheFlowStrategy.populate_entry_trend
populate_entry_trend(df, m) ==
  IF ~df.columns_ok
  THEN [df EXCEPT !.populated = TRUE,
                  !.rows = [i \in 1 .. Len(df.rows) |-> [df.rows[i] EXCEPT !.enter_long = Num(0), !.enter_short = Num(0)]]]
  ELSE [df EXCEPT !.populated = TRUE,
                  !.rows = [i \in 1 .. Len(df.rows) |->
                              [df.rows[i] EXCEPT !.enter_long = EntryCell(CanBuy(m), BuySignal(df.rows[i].row), @),
                                                 !.enter_short = EntryCell(CanSell(m), SellSignal(df.rows[i].row), @)]]]

\* Freqtrade hands a dataframe with indicators to populate_entry_trend
InitFreqtrade ==
  /\ timeframe = [n |-> 1, u |-> "m"]
  /\ ohlcv_df = [rows |-> << >>, liqCols |-> FALSE, tz |-> "UTC"]
  /\ liq_df = [rows |-> {}, form |-> "column", tz |-> "UTC"]
  /\ strategy_params = [liquidation_aggregation_minutes |-> 0, average_lookback_period_days |-> 0]
  /\ start_dt = 0
  /\ end_dt = 0
  /\ out = NoCall
  /\ BatchIdle
  /\ GridIdle
  /\ FetchIdle
  /\ strategy_class = "FollowTheFlowStrategy"
  /\ variant = "freqtrade"
  /\ modus \in {"buy", "sell", "both"}
  /\ cooldown_candles = 0
  /\ exit_on_opposite_signal \in BOOLEAN
  /\ signal_cooldown_counter = 0
  /\ pending_trade_type = "none"
  /\ position = "flat"
  /\ orders = NoOrders
  /\ last = NoCandle
  /\ candles_since_signal = 1
  /\ signal_type = "none"
  /\ \E q \in RowSeqsUpTo(MaxRows), ok \in BOOLEAN :
       dataframe = [rows |-> q, columns_ok |-> ok, populated |-> FALSE]

PopulateEntryTrend ==
  /\ variant = "freqtrade"
  /\ dataframe' = populate_entry_trend(dataframe, modus)
  /\ UNCHANGED << strategyParams, signal_cooldown_counter, pending_trade_type, position, orders, last, candles_since_signal, signal_type >>
  /\ UNCHANGED << pipelineVars, batchVars, gridVars, fetchVars >>

NextStrategy == CandleSrc \/ CandleBacktestingPy \/ CandleFollowSrc \/ CandleFollowBacktestingPy \/ PopulateEntryTrend

SpecStrategy == (InitStrategy \/ InitFreqtrade) /\ [][NextStrategy]_vars

\* ----------------------------------------------------------- build_param_grid ---
\* no pipeline call is under way
PipelineIdle ==
  /\ timeframe = [n |-> 1, u |-> "m"]
  /\ ohlcv_df = [rows |-> << >>, liqCols |-> FALSE, tz |-> "UTC"]
  /\ liq_df = [rows |-> {}, form |-> "column", tz |-> "UTC"]
  /\ strategy_params = [liquidation_aggregation_minutes |-> 0, average_lookback_period_days |-> 0]
  /\ start_dt = 0
  /\ end_dt = 0
  /\ out = NoCall

\* len(range(start, stop, step)) of Python for step > 0
PyRangeLen(start, stop, step) ==
  IF stop <= start THEN 0 ELSE (stop - start + step - 1) \div step

\* list(range(start, stop, step)) of Python for step > 0
PyRange(start, stop, step) ==
  [i \in 1 .. PyRangeLen(start, stop, step) |-> start + (i - 1) * step]

\* build_param_grid on one range with integer start, end and step:
\* sys.exit(1) for step <= 0, range(start, end + step, step) otherwise
build_param_grid(settings) ==
  IF settings.step <= 0
  THEN [built |-> TRUE, exit |-> TRUE, values |-> << >>]
  ELSE [built |-> TRUE, exit |-> FALSE,
        values |-> PyRange(settings.start, settings.end + settings.step, settings.step)]

\* an optimization range of the strategy's settings.toml
InitGrid ==
  /\ PipelineIdle
  /\ BatchIdle
  /\ StrategyIdle
  /\ FetchIdle
  /\ range_settings \in [start : 0 .. MaxRangeEnd, end : 0 .. MaxRangeEnd, step : 0 .. MaxStep]
  /\ param_grid = NoGrid

BuildParamGrid ==
  /\ ~param_grid.built
  /\ param_grid' = build_param_grid(range_settings)
  /\ UNCHANGED << range_settings, pipelineVars, batchVars, strategyVars, fetchVars >>

NextGrid == BuildParamGrid

SpecGrid == InitGrid /\ [][NextGrid]_vars

\* ------------------------------------------- fetch_ohlcv: pagination loop ---
\* Time is counted in candle slots: a timestamp is the number of its slot and
\* exchange.parse_timeframe(timeframe) * 1000 is one slot.

\* what exchange.fetch_ohlcv(symbol, timeframe, since=current_ms, limit=limit)
\* can return as a non-empty list: at most PageLimit consecutive candles that
\* start at since, later, or one slot earlier
Pages(since) ==
  { [k \in 1 .. n |-> first + k - 1] :
      first \in (IF since > 0 THEN since - 1 ELSE 0) .. MaxFetchEnd + 1,
      n \in 1 .. PageLimit }

\* df[(df.index >= start_dt) & (df.index < end_dt)]
FilterRange(rows, start, end) ==
  SelectSeq(rows, LAMBDA t : start <= t /\ t < end)

\* fetch_ohlcv at the head of its loop for the first time: the cache file is
\* missing or unreadable, all_ohlcv = [] and current_ms = start_ms
InitFetch ==
  /\ fetch_pc = "loop"
  /\ start_ms \in 0 .. MaxFetchEnd
  /\ end_ms \in 0 .. MaxFetchEnd
  /\ current_ms = start_ms
  /\ all_ohlcv = << >>
  /\ attempt = 0
  /\ fetched_df = << >>
  /\ PipelineIdle
  /\ BatchIdle
  /\ StrategyIdle
  /\ GridIdle

\* the request of an iteration is sent: attempt is the parity of the number
\* of requests sent so far
Requested ==
  /\ fetch_pc = "loop"
  /\ current_ms < end_ms
  /\ attempt' = 1 - attempt
  /\ UNCHANGED << start_ms, end_ms, fetched_df >>
  /\ UNCHANGED << pipelineVars, batchVars, strategyVars, gridVars >>

\* an iteration whose request returns candles
FetchPage ==
  /\ Requested
  /\ \E ohlcv \in Pages(current_ms) :
       LET last_timestamp_ms == ohlcv[Len(ohlcv)]
       IN /\ all_ohlcv' = all_ohlcv \o ohlcv
          /\ IF last_timestamp_ms >= end_ms \/ Len(ohlcv) < PageLimit
             THEN fetch_pc' = "after_loop" /\ current_ms' = current_ms
             ELSE fetch_pc' = "loop" /\ current_ms' = last_timestamp_ms + 1

\* an iteration whose request returns an empty list: break
FetchEmptyPage ==
  /\ Requested
  /\ fetch_pc' = "after_loop"
  /\ UNCHANGED << current_ms, all_ohlcv >>

\* an iteration whose request raises ccxt.NetworkError: the handler prints,
\* sleeps five seconds and falls through to the loop head
FetchNetworkError ==
  /\ Requested
  /\ fetch_pc' = "loop"
  /\ UNCHANGED << current_ms, all_ohlcv >>

\* an iteration whose request raises ccxt.ExchangeError or any other
\* exception: break; a candle list may have been received before the raise
\* only if it was not yet appended, so all_ohlcv is as before
FetchError ==
  /\ Requested
  /\ fetch_pc' = "after_loop"
  /\ UNCHANGED << current_ms, all_ohlcv >>

\* the loop condition current_ms < end_ms is false
FetchLoopExit ==
  /\ fetch_pc = "loop"
  /\ ~(current_ms < end_ms)
  /\ fetch_pc' = "after_loop"
  /\ UNCHANGED << start_ms, end_ms, current_ms, all_ohlcv, attempt, fetched_df >>
  /\ UNCHANGED << pipelineVars, batchVars, strategyVars, gridVars >>

\* after the loop: an empty table when nothing was fetched, else the candles
\* filtered to [start_dt, end_dt)
FetchReturn ==
  /\ fetch_pc = "after_loop"
  /\ fetch_pc' = "returned"
  /\ fetched_df' = IF all_ohlcv = << >> THEN << >>
                   ELSE FilterRange(all_ohlcv, start_ms, end_ms)
  /\ UNCHANGED << start_ms, end_ms, current_ms, all_ohlcv, attempt >>
  /\ UNCHANGED << pipelineVars, batchVars, strategyVars, gridVars >>

NextFetch ==
  \/ FetchPage
  \/ FetchEmptyPage
  \/ FetchNetworkError
  \/ FetchError
  \/ FetchLoopExit
  \/ FetchReturn

\* every request gets an answer and the interpreter keeps running
SpecFetch == InitFetch /\ [][NextFetch]_vars /\ WF_vars(NextFetch)

\* ================================================================ claims ===
PSD == "prepare_strategy_data"
PD == "prepare_data"
PLD == "process_liquidation_data"

\* the last call returned a table through the full pipeline of a backtest variant
BacktestNormal == out.fn \in {PSD, PD} /\ out.kind = "table" /\ out.path = "normal"

\* position in out.merged of the candle with timestamp ts
MergedIndex(ts) == CHOOSE i \in 1 .. Len(out.merged) : out.merged[i].ts = ts

\* the raw events of a side that lie in the candle that opens at ts
EventsOfCandle(side, ts) ==
  {e \in SideEvents(liq_df.rows, side) :
     ts <= e.ts /\ e.ts < ts + GridMinutes(timeframe)}

\* C1: event binning.  In every row the backtest variants return through the
\* full pipeline, Liq_Buy_Size and Liq_Sell_Size equal the sum of the sizes
\* of the raw events of that side with candle_open <= ts < candle_open +
\* timeframe duration (0 when there is none).
C1_BinningMatchesCandles ==
  BacktestNormal =>
    \A i \in 1 .. Len(out.rows) :
      /\ out.rows[i].Liq_Buy_Size = Num(SumSizes(EventsOfCandle("BUY", out.rows[i].ts)))
      /\ out.rows[i].Liq_Sell_Size = Num(SumSizes(EventsOfCandle("SELL", out.rows[i].ts)))

\* the cells of a side's size column in out.merged that lie in the trailing
\* window of w rows ending at row i and are not zero
NonZeroInWindow(col, i, w) ==
  {j \in Max(1, i - w + 1) .. i : ~IsZero(out.merged[j][col])}

\* row r's average over the lookback window ending at its candle is the mean
\* of the non-zero sizes of the window, and 0 when the window has none
AvgIsNonZeroMean(r, sizeCol, avgCol) ==
  LET nz == NonZeroInWindow(sizeCol, MergedIndex(r.ts), out.lookback_periods)
  IN /\ ~IsNaN(r[avgCol])
     /\ nz = {} => r[avgCol].num = 0
     /\ nz # {} =>
          r[avgCol].num * Cardinality(nz) =
            r[avgCol].den * SumOver([j \in nz |-> out.merged[j][sizeCol].num], nz)

\* C2: long-window average.  In every row the backtest variants return
\* through the full pipeline, Avg_Liq_<side> is the mean of only the
\* non-zero values of Liq_<side>_Size in the trailing lookback_periods rows
\* of the merged table, and 0 when that window holds no non-zero value.
C2_AvgIsMeanOfNonZero ==
  BacktestNormal =>
    \A i \in 1 .. Len(out.rows) :
      /\ AvgIsNonZeroMean(out.rows[i], "Liq_Buy_Size", "Avg_Liq_Buy")
      /\ AvgIsNonZeroMean(out.rows[i], "Liq_Sell_Size", "Avg_Liq_Sell")

\* C2 witness: a returned row whose lookback window holds a zero bin and two
\* non-zero bins, so that the plain mean differs from the non-zero mean
C2_Witness ==
  /\ BacktestNormal
  /\ \E i \in 1 .. Len(out.rows) :
       LET m == MergedIndex(out.rows[i].ts)
           lo == Max(1, m - out.lookback_periods + 1)
       IN /\ Cardinality(NonZeroInWindow("Liq_Buy_Size", m, out.lookback_periods)) = 2
          /\ \E j \in lo .. m : IsZero(out.merged[j].Liq_Buy_Size)
          /\ out.rows[i].Avg_Liq_Buy.den = 2

\* row r's aggregated value is the sum of the sizes of the trailing window
\* of out.window rows of the merged table that ends at its candle
AggIsWindowSum(r, sizeCol, aggCol) ==
  LET m == MergedIndex(r.ts)
      win == Max(1, m - out.window + 1) .. m
  IN r[aggCol] = Num(SumOver([j \in win |-> out.merged[j][sizeCol].num], win))

\* C3: short-window aggregation.  In every row the backtest variants return
\* through the full pipeline, Liq_<side>_Aggregated is the sum of
\* Liq_<side>_Size over the trailing `window` rows of the merged table,
\* clamped at the start of the table: the first candle's value is its own bin.
C3_AggIsTrailingSum ==
  BacktestNormal =>
    \A i \in 1 .. Len(out.rows) :
      /\ AggIsWindowSum(out.rows[i], "Liq_Buy_Size", "Liq_Buy_Aggregated")
      /\ AggIsWindowSum(out.rows[i], "Liq_Sell_Size", "Liq_Sell_Aggregated")

\* C3 witness: a window of two rows that leaves out a non-zero bin of the
\* first candle, and a first candle returned with its own bin as its sum
C3_Witness ==
  /\ BacktestNormal
  /\ out.window = 2
  /\ \E i \in 1 .. Len(out.rows) :
       /\ MergedIndex(out.rows[i].ts) = 3
       /\ ~IsZero(out.merged[1].Liq_Buy_Size)
       /\ ~IsZero(out.rows[i].Liq_Buy_Aggregated)

SixColumns ==
  {"Liq_Buy_Size", "Liq_Sell_Size", "Liq_Buy_Aggregated", "Liq_Sell_Aggregated",
   "Avg_Liq_Buy", "Avg_Liq_Sell"}

\* C4: zero-fill totality.  Every row of a table returned by any of the three
\* variants has a number, never NaN, in each of the six derived columns.
C4_NoNaNReturned ==
  out.kind = "table" =>
    \A i \in 1 .. Len(out.rows) : \A col \in SixColumns : ~IsNaN(out.rows[i][col])

\* C4 witness: a returned row whose average was NaN before the final fillna
\* (events of one side only, in a table that has rows without events)
C4_Witness ==
  /\ out.fn = PSD /\ out.kind = "table" /\ out.path = "normal"
  /\ \E i \in 1 .. Len(out.rows) :
       /\ IsNaN(out.merged[MergedIndex(out.rows[i].ts)].Avg_Liq_Sell)
       /\ ~IsZero(out.rows[i].Avg_Liq_Buy)

\* C5: range trimming.  Every row the backtest variants return, on every
\* return path, has start_dt <= timestamp < end_dt.
C5_RowsInRequestedRange ==
  (out.fn \in {PSD, PD} /\ out.kind = "table") =>
    \A i \in 1 .. Len(out.rows) :
      start_dt <= out.rows[i].ts /\ out.rows[i].ts < end_dt

\* C5 witness: rows were returned through the full pipeline while the table
\* before the filter held a lookback row before start_dt
C5_Witness ==
  /\ BacktestNormal /\ Len(out.rows) > 0
  /\ \E j \in 1 .. Len(out.merged) : out.merged[j].ts < start_dt

\* the candles of the caller's grid that lie in the requested range
CandlesInRange == InRange(ohlcv_df.rows, start_dt, end_dt)

\* the rows of a table reduced to their candle: timestamp and OHLCV values
CandlesOf(rows) ==
  [i \in 1 .. Len(rows) |-> [ts |-> rows[i].ts, ohlcv |-> rows[i].ohlcv]]

\* C6: row preservation.  A table returned by a backtest variant holds
\* exactly the grid's candles with start_dt <= timestamp < end_dt, one row
\* each, in grid order, with their OHLCV values unchanged.
C6_OneRowPerCandleInRange ==
  (out.fn \in {PSD, PD} /\ out.kind = "table") =>
    CandlesOf(out.rows) = CandlesInRange

\* C6 witness: two rows returned through the full pipeline, one whose candle
\* has a bin in neither resampled series and one whose candle has events
C6_Witness ==
  /\ BacktestNormal /\ Len(out.rows) >= 2
  /\ \E i, j \in 1 .. Len(out.rows) :
       /\ EventsOfCandle("BUY", out.rows[i].ts) # {}
       /\ \A e \in liq_df.rows : e.ts > out.rows[j].ts + GridMinutes(timeframe)

\* C7: empty liquidation set.  With no event at all and a grid that is not
\* empty, every variant returns one row per candle (the backtest variants:
\* per candle of the requested range) with the candle unchanged and the six
\* derived columns equal to 0.
C7_EmptyLiquidationsGiveZeroRows ==
  (out.kind # "none" /\ liq_df.rows = {} /\ Len(ohlcv_df.rows) > 0) =>
    /\ out.kind = "table"
    /\ CandlesOf(out.rows) =
         IF out.fn = PLD THEN ohlcv_df.rows ELSE CandlesInRange
    /\ \A i \in 1 .. Len(out.rows) : \A col \in SixColumns : IsZero(out.rows[i][col])

\* C7 witness: two zero rows returned for an empty event set
C7_Witness ==
  /\ liq_df.rows = {} /\ out.kind = "table" /\ Len(out.rows) >= 2
  /\ out.fn = PLD

\* C8: empty candle grid.  With an empty grid every variant returns a table
\* without rows, whatever the events are, without raising and without
\* running any stage of the pipeline.
C8_EmptyGridGivesEmptyTable ==
  (out.kind # "none" /\ Len(ohlcv_df.rows) = 0) =>
    out.kind = "table" /\ out.rows = << >> /\ out.steps = {}

\* C8 witness: a call on an empty grid and a liquidation table with events
C8_Witness ==
  /\ out.fn = PSD /\ Len(ohlcv_df.rows) = 0 /\ Cardinality(liq_df.rows) = MaxEvents
  /\ liq_df.form = "column"

\* pandas cannot parse the timeframe of the request
Unparseable ==
  PandasOffset(timeframe.n, StrategyResampleAlias(timeframe)).kind = "invalid"

\* C9: failure semantics.  For an empty candle grid, an empty liquidation
\* set or an unparseable timeframe string, the backtest variants return a
\* table and do not raise.
C9_DegenerateInputsNeverRaise ==
  (out.fn \in {PSD, PD}
     /\ (Len(ohlcv_df.rows) = 0 \/ liq_df.rows = {} \/ Unparseable)) =>
    out.kind = "table"

\* C10: idempotence.  A call of prepare_strategy_data or of
\* process_liquidation_data that follows a call of the same function on the
\* same tables and arguments returns what that call returned.
C10_SecondCallReturnsTheSame ==
  [][(out.fn \in {PSD, PLD} /\ out'.fn = out.fn) =>
       (out'.kind = out.kind /\ out'.exc = out.exc
          /\ out'.derived = out.derived /\ out'.rows = out.rows)]_vars

\* C10 witness: the call wrote the derived columns into the caller's table,
\* so that the next call receives a table that differs from the first one's
C10_Witness ==
  /\ out.fn = PSD /\ out.kind = "table" /\ out.path = "resample_error"
  /\ ohlcv_df.liqCols /\ Len(out.rows) >= 2


\* the last call went through the full pipeline of its variant
FullPipeline == out.kind = "table" /\ out.path = "normal"

\* C11: aggregation-window conversion.  In every variant the rolling-sum
\* window, in candles, is max(1, floor(liquidation_aggregation_minutes /
\* minutes of one candle)).
C11_WindowIsMinutesOverCandle ==
  FullPipeline =>
    out.window =
      Max(1, strategy_params.liquidation_aggregation_minutes \div GridMinutes(timeframe))

\* a call reached the rolling average, or raised where it builds it
ReachedRollingMean ==
  out.path = "normal" \/ (out.kind = "raise" /\ out.path = "rolling_mean")

\* Python's round(a / b) for a >= 0 and b > 0: to the nearest integer, a tie
\* to the even one
RoundDiv(a, b) ==
  LET q == a \div b
      r == a % b
  IN IF 2 * r < b THEN q
     ELSE IF 2 * r > b THEN q + 1
     ELSE IF q % 2 = 0 THEN q ELSE q + 1

\* C12: lookback-window conversion.  In every variant the rolling-average
\* window, in candles, is max(1, round(average_lookback_period_days * 24 * 60
\* / minutes of one candle)): it is at least 1 and the rolling average is
\* computed, whatever the timeframe and the lookback are.
C12_LookbackIsDaysOverCandle ==
  ReachedRollingMean =>
    /\ out.kind = "table"
    /\ out.lookback_periods =
         Max(1, RoundDiv(strategy_params.average_lookback_period_days * MinutesPerDay,
                         GridMinutes(timeframe)))

\* the table before the range filter has a candle in every slot between its
\* first and its last candle
GapFree ==
  \A i \in 1 .. Len(out.merged) - 1 :
    out.merged[i + 1].ts = out.merged[i].ts + GridMinutes(timeframe)

\* the events of a side between the open of the first candle and the close
\* of the last candle of the table before the range filter
EventsInSpan(side) ==
  {e \in SideEvents(liq_df.rows, side) :
     /\ out.merged[1].ts <= e.ts
     /\ e.ts < out.merged[Len(out.merged)].ts + GridMinutes(timeframe)}

\* the sum of a size column over the table before the range filter
ColumnTotal(col) ==
  SumOver([i \in 1 .. Len(out.merged) |-> out.merged[i][col].num],
          1 .. Len(out.merged))

\* C13: conservation, on grids without gaps.  Before the range filter the
\* sum of Liq_<side>_Size over the candles equals the sum of the sizes of
\* the events of that side that lie in the span the grid covers.
C13_SizesAreConserved ==
  (BacktestNormal /\ GapFree) =>
    /\ ColumnTotal("Liq_Buy_Size") = SumSizes(EventsInSpan("BUY"))
    /\ ColumnTotal("Liq_Sell_Size") = SumSizes(EventsInSpan("SELL"))

\* C14: non-negativity.  Event sizes are not negative, and every value of the
\* six derived columns of every returned row is a number that is not
\* negative.
C14_DerivedColumnsNotNegative ==
  out.kind = "table" =>
    \A i \in 1 .. Len(out.rows) : \A col \in SixColumns :
      /\ ~IsNaN(out.rows[i][col])
      /\ out.rows[i][col].num >= 0

\* C14 witness: a returned row with a positive size, sum and average on the
\* buy side and an average on the sell side that was undefined before fillna
C14_Witness ==
  /\ out.kind = "table" /\ out.fn = PD
  /\ \E i \in 1 .. Len(out.rows) :
       /\ out.rows[i].Liq_Buy_Size.num > 0
       /\ out.rows[i].Liq_Buy_Aggregated.num > out.rows[i].Liq_Buy_Size.num
       /\ out.rows[i].Avg_Liq_Buy.num > 0
       /\ IsZero(out.rows[i].Avg_Liq_Sell)


\* a table with the same timestamps, timezone-aware in UTC
AsUtc(df) == [df EXCEPT !.tz = "UTC"]

\* what the variant `fn` returns or raises for the request of the current
\* state when both tables are timezone-aware with the same UTC instants
OnAwareTables(fn) ==
  IF fn = PSD
  THEN prepare_strategy_data(AsUtc(ohlcv_df), AsUtc(liq_df), strategy_params,
                             start_dt, end_dt, timeframe).ret
  ELSE process_liquidation_data(AsUtc(ohlcv_df), AsUtc(liq_df), strategy_params,
                                timeframe).ret

\* C15: timezone discipline.  A call of prepare_strategy_data or of
\* process_liquidation_data on a candle table or an event table without
\* timezone ends as the same call on the timezone-aware tables of the same
\* UTC instants ends: the same rows, and no error of its own, on every path.
C15_NaiveIsReadAsUtc ==
  [][(out'.fn \in {PSD, PLD} /\ (ohlcv_df.tz = "naive" \/ liq_df.tz = "naive")) =>
       out' = OnAwareTables(out'.fn)]_vars

\* C17: zero-exclusion in the Freqtrade variant.  In every row
\* process_liquidation_data returns through its full pipeline, Avg_Liq_<side>
\* is the mean of only the positive values of Liq_<side>_Size in the trailing
\* window of average_window_candles rows, and 0 when the window has none.
C17_FreqtradeAvgExcludesZeros ==
  (out.fn = PLD /\ FullPipeline) =>
    \A i \in 1 .. Len(out.rows) :
      /\ AvgIsNonZeroMean(out.rows[i], "Liq_Buy_Size", "Avg_Liq_Buy")
      /\ AvgIsNonZeroMean(out.rows[i], "Liq_Sell_Size", "Avg_Liq_Sell")

\* C18: no side effects on inputs.  A call of prepare_strategy_data or of
\* process_liquidation_data leaves the caller's candle table and event table
\* as they were: no column added, no index replaced.
C18_InputsAreLeftUnchanged ==
  [][out'.fn \in {PSD, PLD} => (ohlcv_df' = ohlcv_df /\ liq_df' = liq_df)]_vars

\* the instant L days before the requested start
LookbackStart == start_dt - strategy_params.average_lookback_period_days * MinutesPerDay

\* the candles of the grid from the lookback start up to the requested end
CandlesWithLookback ==
  SelectSeq(ohlcv_df.rows, LAMBDA c : LookbackStart <= c.ts /\ c.ts < end_dt)

LoadedStrategies ==
  {s \in 1 .. MaxStrategies : \E y \in 1 .. MaxSymbols : << s, y >> \in visited}

\* C16: batch isolation.  A run of execute_optimization_loops never ends the
\* process; when it returns, the body of the strategy loop was entered for
\* every strategy, the body of the symbol loop for every symbol of every
\* strategy that got as far as the symbol loop, and the returned list holds
\* the results of exactly the units that succeeded.
C16_FailuresNeverEndTheBatch ==
  /\ batch_pc # "exited"
  /\ batch_pc = "returned" =>
       /\ \A s \in 1 .. MaxStrategies : << s, 0 >> \in visited
       /\ \A s \in LoadedStrategies : \A y \in 1 .. MaxSymbols : << s, y >> \in visited
       /\ all_strategies_results = succeeded

\* C20: cooldown timing of CounterTradeStrategy.next.  After a signal detected
\* at candle t (flat, no cooldown running) with cooldown_candles = k, no
\* entry order is placed at a candle before t + k, and at candle t + k (t
\* itself for k = 0) the entry order of the detected type is placed when no
\* position is open at that candle.
C20_EntryAfterExactlyKCandles ==
  /\ candles_since_signal < cooldown_candles => last.placed = "none"
  /\ (candles_since_signal = cooldown_candles /\ last.position = "flat") =>
       last.placed = signal_type

\* C21: strict single-position policy.  Whatever the candles, the signals and
\* the broker do, no call of next() of CounterTradeStrategy or of
\* FollowTheFlowStrategy, in either copy, places a buy or sell entry order at a
\* candle at which a position is open; the trade executed when a cooldown
\* ends is included.
C21_NoEntryWhileInPosition ==
  last.placed # "none" => last.position = "flat"

\* C21 witness: the src copy of CounterTradeStrategy executes the trade of a
\* finished cooldown of two candles, at a candle without a position
C21_Witness ==
  /\ strategy_class = "CounterTradeStrategy" /\ variant = "src"
  /\ cooldown_candles = 2 /\ candles_since_signal = 2
  /\ last.placed = "sell" /\ last.position = "flat"
  /\ position = "flat" /\ orders.entry = "sell"

\* C22: exit on opposite signal in the src copy of CounterTradeStrategy.  With
\* exit_on_opposite_signal = True, every call of next() that finds a long
\* position and a sell signal (Liq_Sell_Aggregated > Avg_Liq_Sell *
\* average_liquidation_multiplier) closes the position at that candle, and
\* every call that finds a short position and a buy signal does so too.
C22_OppositeSignalClosesPosition ==
  (strategy_class = "CounterTradeStrategy" /\ variant = "src" /\ exit_on_opposite_signal) =>
    /\ (last.position = "long" /\ last.row.Liq_Sell_Aggregated > last.row.Avg_Liq_Sell * average_liquidation_multiplier) => last.closed
    /\ (last.position = "short" /\ last.row.Liq_Buy_Aggregated > last.row.Avg_Liq_Buy * average_liquidation_multiplier) => last.closed

\* C23: modus restriction.  A strategy configured with modus = 'buy' never
\* places a sell entry and one configured with modus = 'sell' never places a
\* buy entry, at any candle of either copy of CounterTradeStrategy (the trade
\* after a cooldown included) and of FollowTheFlowStrategy; and
\* populate_entry_trend leaves no row with enter_short = 1 under modus = 'buy'
\* and no row with enter_long = 1 under modus = 'sell'.
C23_ModusRestrictsEntries ==
  /\ modus = "buy" =>
       /\ last.placed # "sell"
       /\ \A i \in 1 .. Len(dataframe.rows) : dataframe.rows[i].enter_short # Num(1)
  /\ modus = "sell" =>
       /\ last.placed # "buy"
       /\ \A i \in 1 .. Len(dataframe.rows) : dataframe.rows[i].enter_long # Num(1)

\* C23 witness: under modus = 'buy' the src copy of CounterTradeStrategy
\* places the buy of a finished cooldown at a candle whose sell signal is true
C23_Witness ==
  /\ strategy_class = "CounterTradeStrategy" /\ variant = "src" /\ modus = "buy"
  /\ cooldown_candles > 0 /\ candles_since_signal = cooldown_candles
  /\ last.placed = "buy"
  /\ last.row.Liq_Sell_Aggregated > last.row.Avg_Liq_Sell * average_liquidation_multiplier

\* C24: entry rule of FollowTheFlowStrategy.next, both backtesting.py copies.
\* At a candle without a position a buy order is placed exactly when modus is
\* 'buy' or 'both' and Liq_Buy_Aggregated > Avg_Liq_Buy *
\* average_liquidation_multiplier, strictly; otherwise a sell order exactly
\* when modus is 'sell' or 'both' and Liq_Sell_Aggregated > Avg_Liq_Sell *
\* average_liquidation_multiplier; otherwise no order.  The buy has priority.
C24_FollowTheFlowEntryRule ==
  (strategy_class = "FollowTheFlowStrategy" /\ variant \in {"src", "backtesting_py"} /\ last.position = "flat") =>
    LET buy == /\ modus \in {"buy", "both"}
               /\ last.row.Liq_Buy_Aggregated > last.row.Avg_Liq_Buy * average_liquidation_multiplier
        sell == /\ modus \in {"sell", "both"}
                /\ last.row.Liq_Sell_Aggregated > last.row.Avg_Liq_Sell * average_liquidation_multiplier
    IN last.placed = IF buy THEN "buy" ELSE IF sell THEN "sell" ELSE "none"

\* C24 witness: under modus = 'both' a candle whose buy aggregate equals its
\* threshold and whose sell aggregate exceeds its own gets a sell order
C24_Witness ==
  /\ strategy_class = "FollowTheFlowStrategy" /\ variant = "backtesting_py" /\ modus = "both"
  /\ last.position = "flat"
  /\ last.row.Liq_Buy_Aggregated = last.row.Avg_Liq_Buy * average_liquidation_multiplier
  /\ last.row.Liq_Sell_Aggregated > last.row.Avg_Liq_Sell * average_liquidation_multiplier
  /\ last.placed = "sell"

\* the values of a sequence
Values(q) == {q[i] : i \in 1 .. Len(q)}

\* C25: integer ranges of build_param_grid.  For integer start, end and step
\* with step > 0 and start <= end, the grid of the parameter holds exactly the
\* values start, start + step, start + 2 * step, ... that are <= end; no value
\* exceeds end.
C25_GridStopsAtEnd ==
  (param_grid.built /\ range_settings.step > 0 /\ range_settings.start <= range_settings.end) =>
    /\ ~param_grid.exit
    /\ Values(param_grid.values) =
         {v \in range_settings.start .. range_settings.end : (v - range_settings.start) % range_settings.step = 0}
    /\ \A i \in 1 .. Len(param_grid.values) : param_grid.values[i] <= range_settings.end

\* the events with a timestamp before instant t
EventsBefore(evs, t) == {e \in evs : e.ts < t}

\* what the backtest variant fn returns for the tables of the current state
\* with the events evs in place of the caller's
WithEvents(fn, evs) ==
  IF fn = PSD
  THEN prepare_strategy_data(ohlcv_df, [liq_df EXCEPT !.rows = evs], strategy_params, start_dt, end_dt, timeframe).ret
  ELSE prepare_data(ohlcv_df.rows, evs, timeframe, start_dt, end_dt, strategy_params.liquidation_aggregation_minutes, strategy_params.average_lookback_period_days)

\* C26: no look-ahead.  Every row a backtest variant returns is the row the
\* same call returns when the events at or after the close of the row's
\* candle (timestamp >= candle open + timeframe duration) are taken away: the
\* candle and the six derived values of the row depend only on the events
\* before that instant, for every window size of the requests.
C26_NoLookAhead ==
  [][(out'.fn \in {PSD, PD} /\ out'.kind = "table") =>
       LET past(i) == EventsBefore(liq_df.rows, out'.rows[i].ts + GridMinutes(timeframe))
           cuts == {past(i) : i \in 1 .. Len(out'.rows)} \ {liq_df.rows}
           alt == [p \in cuts |-> WithEvents(out'.fn, p)]
       IN \A i \in 1 .. Len(out'.rows) :
            past(i) # liq_df.rows =>
              /\ alt[past(i)].kind = "table"
              /\ i <= Len(alt[past(i)].rows)
              /\ alt[past(i)].rows[i] = out'.rows[i]]_vars

\* C26 witness: a returned row with a non-zero aggregate and a non-zero
\* average while the caller's events hold one after the close of its candle
C26_Witness ==
  /\ BacktestNormal
  /\ \E i \in 1 .. Len(out.rows) :
       /\ \E e \in liq_df.rows : e.ts >= out.rows[i].ts + GridMinutes(timeframe)
       /\ ~IsZero(out.rows[i].Liq_Buy_Aggregated)
       /\ ~IsZero(out.rows[i].Avg_Liq_Buy)
       /\ i < Len(out.rows)

\* C27: no signal against a zero baseline.  In every row a backtest variant
\* returns, a zero average of a side comes with a zero aggregate of that side.
C27_ZeroBaselineZeroAggregate ==
  (out.fn \in {PSD, PD} /\ out.kind = "table") =>
    \A i \in 1 .. Len(out.rows) :
      /\ IsZero(out.rows[i].Avg_Liq_Buy) => IsZero(out.rows[i].Liq_Buy_Aggregated)
      /\ IsZero(out.rows[i].Avg_Liq_Sell) => IsZero(out.rows[i].Liq_Sell_Aggregated)

\* the cooldown fields are within their ranges and a running cooldown has a
\* pending trade
CooldownStateOk(counter, pending) ==
  /\ 0 <= counter
  /\ counter <= cooldown_candles
  /\ counter > 0 => pending \in {"buy", "sell"}

\* C28: cooldown state of CounterTradeStrategy, both copies, for
\* cooldown_candles >= 0.  After init and after every call of next() the
\* counter lies in 0 .. cooldown_candles and a positive counter has a pending
\* trade type 'buy' or 'sell'; a positive counter is one less after the next
\* candle; and a counter that goes up is set to cooldown_candles by a call
\* of next() that saw no open position.
C28_CooldownState ==
  [][strategy_class = "CounterTradeStrategy" =>
       /\ CooldownStateOk(signal_cooldown_counter, pending_trade_type)
       /\ CooldownStateOk(signal_cooldown_counter', pending_trade_type')
       /\ signal_cooldown_counter > 0 =>
            signal_cooldown_counter' = signal_cooldown_counter - 1
       /\ signal_cooldown_counter' > signal_cooldown_counter =>
            /\ signal_cooldown_counter' = cooldown_candles
            /\ last'.position = "flat"
            /\ last'.detected = pending_trade_type']_vars

\* C28 witness: the backtesting_py copy in the middle of the longest
\* cooldown, one candle after a sell signal started it
C28_Witness ==
  /\ strategy_class = "CounterTradeStrategy"
  /\ variant = "backtesting_py"
  /\ cooldown_candles = MaxCooldown
  /\ signal_cooldown_counter = MaxCooldown - 1
  /\ signal_cooldown_counter > 0
  /\ pending_trade_type = "sell"
  /\ last.detected = "none"
  /\ candles_since_signal = 1

\* C29: the pagination loop of fetch_ohlcv terminates: whatever the exchange
\* answers (pages of candles, empty pages, network errors, exchange errors),
\* the call eventually leaves its while loop.
C29_LoopTerminates == <>(fetch_pc # "loop")

=============================================================================
